---- MODULE Spec2Model ----
(***************************************************************************)
(* Surface-code circuit generators.                                        *)
(*                                                                         *)
(*   StabilizerCircuits   (src/error-syndrome-stabilizers.py)              *)
(*   SurfaceCodeEncoder   (src/logical-qubit-encoder.py)                   *)
(*                                                                         *)
(* A qubit is a grid qubit, identified by (and compared by) its pair of    *)
(* coordinates.  The source places ancillas at half-integer coordinates    *)
(* and adds +-0.5 to them; every coordinate is held here in half-units     *)
(* (row 0.5 is 1, row 1 is 2, row 1.5 is 3), which is exact since only     *)
(* equality and the addition of +-0.5 are ever applied to a coordinate.    *)
(*                                                                         *)
(* A circuit is the sequence of the operations appended to it, in append   *)
(* order.  Circuits are objects on a heap (the variable circuits), so that *)
(* two calls returning or touching the same object can be told from two    *)
(* calls that build equal circuits.                                        *)
(***************************************************************************)
EXTENDS Integers, Sequences, FiniteSets

VARIABLES
    data_qubits,     \* self.data_qubits    (both classes; the caller's list)
    ancilla_qubits,  \* self.ancilla_qubits (both classes; the caller's list)
    qubit_map,       \* StabilizerCircuits.qubit_map: insertion-ordered dict
    all_qubits,      \* SurfaceCodeEncoder.all_qubits
    circuits,        \* heap of circuit objects: id |-> [gen, ops]
    returned,        \* what each completed generator call returned, as seen
                     \* by the caller at the moment of return
    call,            \* the last method called
    arg,             \* its qubit argument (_get_neighbors), else NoQubit
    neighbors,       \* the list the last _get_neighbors call returned
    circuit,         \* id of the circuit the last generator call returned, 0 if none
    error            \* "none", or the exception the last call raised

vars == <<data_qubits, ancilla_qubits, qubit_map, all_qubits, circuits,
          returned, call, arg, neighbors, circuit, error>>

layout == <<data_qubits, ancilla_qubits, qubit_map, all_qubits>>

----------------------------------------------------------------------------
(* Bounds of the model *)

MaxQubits == 3
MaxCalls == 2

(* 0.5, in half-units *)
HALF == 1

(* The grid sites small layouts are drawn from: the site (0.5, 0.5) and   *)
(* three of the integer sites diagonal to it, (0, 0), (0, 1) and (1, 1).  *)
(* Any site may hold a data qubit or an ancilla, any number of times.     *)
Sites == { <<0, 0>>, <<0, 2>>, <<1, 1>>, <<2, 2>> }

NoQubit == <<>>

----------------------------------------------------------------------------
(* Sequence helpers *)

Range(s) == { s[i] : i \in DOMAIN s }

SeqsUpTo(S, n) == UNION { [1..k -> S] : k \in 0..n }

RECURSIVE Flatten(_)
Flatten(ss) == IF ss = <<>> THEN <<>> ELSE Head(ss) \o Flatten(Tail(ss))

Reverse(s) == [i \in 1..Len(s) |-> s[Len(s) + 1 - i]]

----------------------------------------------------------------------------
(* The collaborator's values: grid qubits and operations *)

GridQubit(row, col) == <<row, col>>

H(q) == [gate |-> "H", qubits |-> <<q>>, key |-> ""]

CNOT(control, target) == [gate |-> "CNOT", qubits |-> <<control, target>>, key |-> ""]

reset(q) == [gate |-> "reset", qubits |-> <<q>>, key |-> ""]

measure(qs, k) == [gate |-> "measure", qubits |-> qs, key |-> k]

----------------------------------------------------------------------------
(* The example patch of both scripts *)

ExampleData ==
    << GridQubit(0, 0), GridQubit(0, 2), GridQubit(2, 0), GridQubit(2, 2) >>

ExampleAncillas ==
    << GridQubit(1, 1), GridQubit(1, 3), GridQubit(3, 1) >>

----------------------------------------------------------------------------
(* The insertion-ordered dict qubit_map: a sequence of [key, val] entries  *)
(* with pairwise distinct keys, in insertion order.                        *)

Keys(m) == { m[i].key : i \in DOMAIN m }

KeySeq(m) == [i \in DOMAIN m |-> m[i].key]

Lookup(m, k) == (CHOOSE i \in DOMAIN m : m[i].key = k)

(* Mutant: an association list that never collapses equal keys. *)
dict_append(m, k, v) == Append(m, [key |-> k, val |-> v])

(* m[k] = v: an equal key keeps its entry and its place, and takes v. *)
dict_set(m, k, v) ==
    IF k \in Keys(m)
    THEN [m EXCEPT ![Lookup(m, k)].val = v]
    ELSE Append(m, [key |-> k, val |-> v])

(* Mutant: only the data qubits are registered. *)
data_only(data, ancillas) == data

(* data_qubits + ancilla_qubits *)
combined(data, ancillas) == data \o ancillas

RECURSIVE dict_from(_, _)
dict_from(qs, m) ==
    IF qs = <<>> THEN m
    ELSE dict_from(Tail(qs), dict_set(m, Head(qs), <<Head(qs)[1], Head(qs)[2]>>))

(* {q: (q.row, q.col) for q in data_qubits + ancilla_qubits} *)
make_qubit_map(data, ancillas) == dict_from(combined(data, ancillas), <<>>)

----------------------------------------------------------------------------
(* StabilizerCircuits._get_neighbors *)

(* Mutant: offsets of a whole lattice step. *)
whole_offsets == << -(2 * HALF), 2 * HALF >>

(* [-0.5, 0.5] *)
offsets == << -HALF, HALF >>

(* for dr in offsets: for dc in offsets: (r + dr, c + dc) *)
neighbor_positions(r, c) ==
    Flatten([i \in 1..Len(offsets) |->
                [j \in 1..Len(offsets) |-> <<r + offsets[i], c + offsets[j]>>]])

(* for q, pos in qubit_map.items(): if pos == neighbor_pos: append q *)
scan(m, neighbor_pos) ==
    KeySeq(SelectSeq(m, LAMBDA e : e.val = neighbor_pos))

(* Mutant: a missing key yields no neighbors instead of raising. *)
get_neighbors_default(m, q) ==
    IF q \notin Keys(m)
    THEN [err |-> "none", val |-> <<>>]
    ELSE LET pos == m[Lookup(m, q)].val
             cand == neighbor_positions(pos[1], pos[2])
         IN  [err |-> "none",
              val |-> Flatten([k \in 1..Len(cand) |-> scan(m, cand[k])])]

_get_neighbors(m, q) ==
    IF q \notin Keys(m)
    THEN [err |-> "KeyError", val |-> <<>>]
    ELSE LET pos == m[Lookup(m, q)].val
             cand == neighbor_positions(pos[1], pos[2])
         IN  [err |-> "none",
              val |-> Flatten([k \in 1..Len(cand) |-> scan(m, cand[k])])]

(* Mutant: the lookup registers a missing qubit (setdefault). *)
map_after_setdefault(m, q) == dict_set(m, q, q)

(* self.qubit_map[ancilla_qubit] reads the dict and leaves it as it is. *)
map_after_lookup(m, q) == m

----------------------------------------------------------------------------
(* StabilizerCircuits.create_stabilizer_cycle *)

(* circuit.append(cirq.H(ancilla) for ancilla in self.ancilla_qubits) *)
h_layer(ancillas) == [i \in 1..Len(ancillas) |-> H(ancillas[i])]

(* for ancilla: circuit.append(cirq.CNOT(ancilla, data) for data in neighbors) *)
x_type_cnots(m, ancillas) ==
    Flatten([i \in 1..Len(ancillas) |->
        LET nb == _get_neighbors(m, ancillas[i]).val
        IN  [k \in 1..Len(nb) |-> CNOT(ancillas[i], nb[k])]])

(* Mutant: the second entangling phase walks the neighbors backwards. *)
z_type_cnots_reversed(m, ancillas) ==
    Flatten([i \in 1..Len(ancillas) |->
        LET nb == Reverse(_get_neighbors(m, ancillas[i]).val)
        IN  [k \in 1..Len(nb) |-> CNOT(nb[k], ancillas[i])]])

(* for ancilla: circuit.append(cirq.CNOT(data, ancilla) for data in neighbors) *)
z_type_cnots(m, ancillas) ==
    Flatten([i \in 1..Len(ancillas) |->
        LET nb == _get_neighbors(m, ancillas[i]).val
        IN  [k \in 1..Len(nb) |-> CNOT(nb[k], ancillas[i])]])

(* Mutant: the basis change is not undone before the second phase. *)
cycle_ops_one_h_layer(m, ancillas) ==
       h_layer(ancillas)
    \o x_type_cnots(m, ancillas)
    \o z_type_cnots(m, ancillas)
    \o << measure(ancillas, "syndrome") >>

(* The operations the method appends, in the order it appends them. *)
cycle_ops(m, ancillas) ==
       h_layer(ancillas)
    \o x_type_cnots(m, ancillas)
    \o h_layer(ancillas)
    \o z_type_cnots(m, ancillas)
    \o << measure(ancillas, "syndrome") >>

(* The method raises what its first failing _get_neighbors call raises,   *)
(* and then returns no circuit.                                            *)
create_stabilizer_cycle(m, ancillas) ==
    IF \E i \in DOMAIN ancillas : _get_neighbors(m, ancillas[i]).err # "none"
    THEN [err |-> _get_neighbors(m,
                     ancillas[CHOOSE i \in DOMAIN ancillas :
                        /\ _get_neighbors(m, ancillas[i]).err # "none"
                        /\ \A j \in 1..(i - 1) :
                              _get_neighbors(m, ancillas[j]).err = "none"]).err,
          ops |-> <<>>]
    ELSE [err |-> "none", ops |-> cycle_ops(m, ancillas)]

----------------------------------------------------------------------------
(* SurfaceCodeEncoder.create_logical_zero_circuit *)

(* Mutant: every qubit of the layout is reset. *)
logical_zero_ops_all(data, everything) ==
    [i \in 1..Len(everything) |-> reset(everything[i])]

(* circuit.append(cirq.reset(q) for q in self.data_qubits) *)
logical_zero_ops(data, everything) ==
    [i \in 1..Len(data) |-> reset(data[i])]

----------------------------------------------------------------------------
(* Circuit objects *)

(* Mutant: one circuit object, made once and kept by the generator. *)
shared_circuit(heap) == 1

(* circuit = cirq.Circuit(): a new, empty object on every call. *)
new_circuit(heap) == Len(heap) + 1

(* The heap after the operations ops are appended to circuit id. *)
appended(heap, id, gen, ops) ==
    [i \in 1..(IF id > Len(heap) THEN id ELSE Len(heap)) |->
        IF i = id
        THEN [gen |-> gen,
              ops |-> (IF id \in DOMAIN heap THEN heap[id].ops ELSE <<>>) \o ops]
        ELSE heap[i]]

----------------------------------------------------------------------------
(* Initial states: both objects constructed over one layout *)

(* Every split of every sequence of at most MaxQubits sites into data     *)
(* qubits and ancillas, and the example patch.                             *)
Layouts ==
    UNION { { [data |-> SubSeq(s, 1, k), anc |-> SubSeq(s, k + 1, Len(s))] :
                k \in 0..Len(s) } : s \in SeqsUpTo(Sites, MaxQubits) }
    \cup { [data |-> ExampleData, anc |-> ExampleAncillas] }

(* The qubits _get_neighbors is called with: the interior site, two data  *)
(* sites, and the example's boundary ancilla (in no small layout).        *)
CallArgs == { <<1, 1>>, <<0, 0>>, <<2, 2>>, <<1, 3>> }

Init ==
    \E l \in Layouts :
        /\ data_qubits = l.data
        /\ ancilla_qubits = l.anc
        /\ qubit_map = make_qubit_map(l.data, l.anc)
        /\ all_qubits = l.data \o l.anc
        /\ circuits = <<>>
        /\ returned = <<>>
        /\ call = "__init__"
        /\ arg = NoQubit
        /\ neighbors = <<>>
        /\ circuit = 0
        /\ error = "none"

----------------------------------------------------------------------------
(* Operations *)

GetNeighbors(q) ==
    LET r == _get_neighbors(qubit_map, q)
    IN  /\ call' = "_get_neighbors"
        /\ arg' = q
        /\ error' = r.err
        /\ neighbors' = r.val
        /\ circuit' = 0
        /\ qubit_map' = map_after_lookup(qubit_map, q)
        /\ UNCHANGED <<data_qubits, ancilla_qubits, all_qubits, circuits, returned>>

CreateStabilizerCycle ==
    /\ Len(returned) < MaxCalls
    /\ LET r == create_stabilizer_cycle(qubit_map, ancilla_qubits)
           id == new_circuit(circuits)
       IN  /\ call' = "create_stabilizer_cycle"
           /\ arg' = NoQubit
           /\ neighbors' = <<>>
           /\ error' = r.err
           /\ IF r.err = "none"
              THEN /\ circuits' = appended(circuits, id, "cycle", r.ops)
                   /\ circuit' = id
                   /\ returned' = Append(returned, circuits'[id])
              ELSE /\ circuit' = 0
                   /\ UNCHANGED <<circuits, returned>>
    /\ UNCHANGED layout

CreateLogicalZeroCircuit ==
    /\ Len(returned) < MaxCalls
    /\ LET id == new_circuit(circuits)
       IN  /\ circuits' = appended(circuits, id, "zero",
                                   logical_zero_ops(data_qubits, all_qubits))
           /\ circuit' = id
           /\ returned' = Append(returned, circuits'[id])
    /\ call' = "create_logical_zero_circuit"
    /\ arg' = NoQubit
    /\ neighbors' = <<>>
    /\ error' = "none"
    /\ UNCHANGED layout

Next ==
    \/ \E q \in CallArgs : GetNeighbors(q)
    \/ CreateStabilizerCycle
    \/ CreateLogicalZeroCircuit

Spec == Init /\ [][Next]_vars

----------------------------------------------------------------------------
(* Vocabulary of the properties *)

Abs(x) == IF x < 0 THEN -x ELSE x

(* q sits at (a.row +- 0.5, a.col +- 0.5) *)
Diagonal(a, q) == Abs(q[1] - a[1]) = HALF /\ Abs(q[2] - a[2]) = HALF

DiagonalSites(a) ==
    { <<a[1] + dr, a[2] + dc>> : dr \in {-HALF, HALF}, dc \in {-HALF, HALF} }

Qubits == Range(data_qubits) \cup Range(ancilla_qubits)

(* Two qubits of the layout share a coordinate pair. *)
Collides ==
    Len(data_qubits) + Len(ancilla_qubits) > Cardinality(Qubits)

Resolved(i) == _get_neighbors(qubit_map, ancilla_qubits[i]).val

RECURSIVE NeighborsBefore(_)
NeighborsBefore(i) ==
    IF i <= 1 THEN 0 ELSE NeighborsBefore(i - 1) + Len(Resolved(i - 1))

NeighborTotal == NeighborsBefore(Len(ancilla_qubits) + 1)

(* The circuit the last call returned, if it was a call of that generator. *)
CyclesReturned ==
    IF call = "create_stabilizer_cycle" /\ circuit \in DOMAIN circuits
    THEN { circuits[circuit] } ELSE {}

ZerosReturned ==
    IF call = "create_logical_zero_circuit" /\ circuit \in DOMAIN circuits
    THEN { circuits[circuit] } ELSE {}

----------------------------------------------------------------------------
(* C1: every circuit create_stabilizer_cycle returns is, in this order: one *)
(* H per ancilla in construction order; for each ancilla in order, one     *)
(* CNOT from it to each of its resolved neighbors; one H per ancilla       *)
(* again; for each ancilla in order, one CNOT from each resolved neighbor  *)
(* to it; one measurement of all the ancillas with key "syndrome"; and     *)
(* nothing else.                                                           *)
C1_CyclePhases ==
    \A r \in CyclesReturned :
        LET ops == r.ops
            A == Len(ancilla_qubits)
            S == NeighborTotal
        IN  /\ Len(ops) = 2 * A + 2 * S + 1
            /\ \A i \in 1..A :
                  /\ ops[i] = H(ancilla_qubits[i])
                  /\ ops[A + S + i] = H(ancilla_qubits[i])
                  /\ \A k \in 1..Len(Resolved(i)) :
                        /\ ops[A + NeighborsBefore(i) + k]
                              = CNOT(ancilla_qubits[i], Resolved(i)[k])
                        /\ ops[2 * A + S + NeighborsBefore(i) + k]
                              = CNOT(Resolved(i)[k], ancilla_qubits[i])
            /\ ops[2 * A + 2 * S + 1] = measure(ancilla_qubits, "syndrome")

(* A cycle was returned for at least two ancillas with neighbors. *)
C1_Witness ==
    /\ call = "create_stabilizer_cycle"
    /\ error = "none"
    /\ Len(ancilla_qubits) >= 2
    /\ \A i \in DOMAIN ancilla_qubits : Len(Resolved(i)) >= 1
    /\ CyclesReturned # {}

(* C2, as claimed: in a layout without duplicate coordinates,              *)
(* _get_neighbors(a) of an ancilla a returns exactly the data qubits at    *)
(* (a.row +- 0.5, a.col +- 0.5): members of data_qubits only, and all of   *)
(* them.                                                                   *)
C2_DataNeighborsOnly ==
    (call = "_get_neighbors" /\ arg \in Range(ancilla_qubits) /\ ~Collides)
        => /\ error = "none"
           /\ Range(neighbors) = { d \in Range(data_qubits) : Diagonal(arg, d) }

(* C3, as claimed: the logical-zero circuit is one reset per data qubit in *)
(* input order and nothing else, and no ancilla qubit appears in it.       *)
C3_ResetsNoAncilla ==
    \A r \in ZerosReturned :
        /\ Len(r.ops) = Len(data_qubits)
        /\ \A i \in DOMAIN r.ops : r.ops[i] = reset(data_qubits[i])
        /\ \A i \in DOMAIN r.ops :
              Range(r.ops[i].qubits) \cap Range(ancilla_qubits) = {}

(* C3, amended: the logical-zero circuit is one reset per data qubit in    *)
(* input order and nothing else; every qubit in it is a data qubit, so an  *)
(* ancilla appears in it only where it shares its coordinates with a data  *)
(* qubit.                                                                  *)
C3_ResetsDataOnly ==
    \A r \in ZerosReturned :
        /\ Len(r.ops) = Len(data_qubits)
        /\ \A i \in DOMAIN r.ops : r.ops[i] = reset(data_qubits[i])
        /\ \A i \in DOMAIN r.ops :
              Range(r.ops[i].qubits) \subseteq Range(data_qubits)
        /\ (Range(data_qubits) \cap Range(ancilla_qubits) = {}
              => \A i \in DOMAIN r.ops :
                    Range(r.ops[i].qubits) \cap Range(ancilla_qubits) = {})

(* A logical-zero circuit was returned for two or more data qubits next to *)
(* an ancilla at another site.                                             *)
C3_Witness ==
    /\ call = "create_logical_zero_circuit"
    /\ Len(data_qubits) >= 2
    /\ Len(ancilla_qubits) >= 1
    /\ Range(data_qubits) \cap Range(ancilla_qubits) = {}
    /\ ZerosReturned # {}

(* C4, as claimed: a layout in which two qubits share a coordinate is      *)
(* surfaced as a failure, and never silently yields a layout and a cycle   *)
(* circuit.                                                                *)
C4_CollisionFails ==
    ~(Collides /\ call = "create_stabilizer_cycle" /\ error = "none")

(* C4, amended: a layout in which two qubits share a coordinate is not     *)
(* detected.  Construction succeeds, qubit_map keeps one entry per         *)
(* distinct coordinate (fewer entries than qubits passed), all_qubits      *)
(* keeps every qubit passed, and neither construction nor                  *)
(* create_stabilizer_cycle raises a lookup error.                          *)
C4_CollisionSilent ==
    Collides =>
        /\ Len(qubit_map) = Cardinality(Qubits)
        /\ Keys(qubit_map) = Qubits
        /\ Len(qubit_map) < Len(data_qubits) + Len(ancilla_qubits)
        /\ all_qubits = data_qubits \o ancilla_qubits
        /\ (call \in {"__init__", "create_stabilizer_cycle"} => error = "none")
        /\ (call = "create_stabilizer_cycle" => circuit \in DOMAIN circuits)

(* A cycle circuit was returned for a layout with a coordinate collision. *)
C4_Witness ==
    /\ Collides
    /\ call = "create_stabilizer_cycle"
    /\ error = "none"
    /\ circuit \in DOMAIN circuits

(* C5: for an ancilla of the layout, _get_neighbors returns exactly 4      *)
(* neighbors when all four diagonal sites hold data qubits, and fewer than *)
(* 4, without raising, when some diagonal site holds no qubit.  In the     *)
(* example patch, ancilla (0.5, 0.5) resolves to all four data qubits and  *)
(* ancilla (0.5, 1.5) to {(0, 1), (1, 1)} only.                            *)
C5_NeighborCount ==
    (call = "_get_neighbors" /\ arg \in Range(ancilla_qubits))
        => /\ error = "none"
           /\ (DiagonalSites(arg) \subseteq Range(data_qubits)
                  => Len(neighbors) = 4)
           /\ (DiagonalSites(arg) \ Qubits # {} => Len(neighbors) < 4)
           /\ ((data_qubits = ExampleData /\ ancilla_qubits = ExampleAncillas)
                  => /\ (arg = GridQubit(1, 1)
                           => /\ Len(neighbors) = 4
                              /\ Range(neighbors) = Range(ExampleData))
                     /\ (arg = GridQubit(1, 3)
                           => /\ Len(neighbors) = 2
                              /\ Range(neighbors)
                                    = { GridQubit(0, 2), GridQubit(2, 2) }))

(* The interior ancilla of the example patch was resolved. *)
C5_Witness ==
    /\ call = "_get_neighbors"
    /\ arg \in Range(ancilla_qubits)
    /\ DiagonalSites(arg) \subseteq Range(data_qubits)
    /\ Len(neighbors) = 4

(* C6: _get_neighbors(q) for a q passed neither in data_qubits nor in      *)
(* ancilla_qubits, hence absent from qubit_map, raises a lookup error,     *)
(* returns no list, and leaves data_qubits, ancilla_qubits and qubit_map   *)
(* as they were.                                                           *)
C6_LookupFailure ==
    [][ (call' = "_get_neighbors" /\ arg' \notin Qubits)
          => /\ arg' \notin Keys(qubit_map)
             /\ error' = "KeyError"
             /\ neighbors' = <<>>
             /\ circuit' = 0
             /\ layout' = layout ]_vars

(* _get_neighbors failed on a qubit outside a layout that has ancillas. *)
C6_Witness ==
    /\ call = "_get_neighbors"
    /\ arg \notin Keys(qubit_map)
    /\ error = "KeyError"
    /\ ancilla_qubits # <<>>

(* C7: any two calls of the same generator on the layout return circuits   *)
(* with the same operation sequence, whatever was called before.           *)
C7_Determinism ==
    \A i, j \in DOMAIN returned :
        returned[i].gen = returned[j].gen => returned[i].ops = returned[j].ops

(* The same generator returned two non-empty circuits. *)
C7_Witness ==
    /\ Len(returned) >= 2
    /\ returned[1].gen = returned[2].gen
    /\ Len(returned[1].ops) >= 2

(* C8: every call leaves data_qubits, ancilla_qubits, qubit_map and        *)
(* all_qubits unchanged, and a call that returns a circuit returns a new   *)
(* object: the circuits returned before keep their operations.             *)
C8_LayoutReadOnly ==
    [][ /\ layout' = layout
        /\ \A i \in DOMAIN circuits :
              i \in DOMAIN circuits' /\ circuits'[i] = circuits[i]
        /\ (returned' # returned
              => /\ circuit' \notin DOMAIN circuits
                 /\ circuit' \in DOMAIN circuits'
                 /\ returned'[Len(returned')] = circuits'[circuit'])
      ]_vars

(* Both generators have returned a circuit, then a qubit outside the       *)
(* layout was looked up.                                                   *)
C8_Witness ==
    /\ Len(circuits) >= 2
    /\ circuits[1].gen # circuits[2].gen
    /\ call = "_get_neighbors"
    /\ error = "KeyError"

(* Place of a returned neighbor in the enumeration: its offset from the    *)
(* ancilla, in the order (-,-), (-,+), (+,-), (+,+), then its place in     *)
(* qubit_map.                                                              *)
OffsetIndex(a, q) ==
    (IF q[1] - a[1] = HALF THEN 2 ELSE 0) + (IF q[2] - a[2] = HALF THEN 1 ELSE 0)

Rank(a, q) == OffsetIndex(a, q) * (Len(qubit_map) + 1) + Lookup(qubit_map, q)

(* C9: _get_neighbors returns its matches in offset enumeration order     *)
(* (-0.5,-0.5), (-0.5,+0.5), (+0.5,-0.5), (+0.5,+0.5), equal offsets in    *)
(* insertion order of qubit_map; and in every returned cycle the k-th      *)
(* CNOT of the second entangling phase is the k-th CNOT of the first with  *)
(* control and target swapped, the first being controlled by an ancilla.   *)
C9_NeighborOrder ==
    /\ (call = "_get_neighbors" /\ error = "none")
          => /\ \A k \in DOMAIN neighbors :
                   neighbors[k] \in Keys(qubit_map) /\ Diagonal(arg, neighbors[k])
             /\ \A k \in 1..(Len(neighbors) - 1) :
                   Rank(arg, neighbors[k]) < Rank(arg, neighbors[k + 1])
    /\ \A r \in CyclesReturned :
          LET ops == r.ops
              A == Len(ancilla_qubits)
              S == (Len(ops) - 2 * A - 1) \div 2
          IN  /\ Len(ops) = 2 * A + 2 * S + 1
              /\ \A k \in 1..S :
                    /\ ops[A + k].gate = "CNOT"
                    /\ ops[A + k].qubits[1] \in Range(ancilla_qubits)
                    /\ ops[2 * A + S + k]
                          = CNOT(ops[A + k].qubits[2], ops[A + k].qubits[1])

(* A cycle was returned in which an ancilla has several neighbors. *)
C9_Witness ==
    /\ \E i \in DOMAIN ancilla_qubits : Len(Resolved(i)) >= 2
    /\ \E r \in CyclesReturned :
          \E k \in 1..(Len(r.ops) - 1) :
              /\ r.ops[k].gate = "CNOT"
              /\ r.ops[k + 1].gate = "CNOT"
              /\ r.ops[k].qubits[1] = r.ops[k + 1].qubits[1]

(* C10: every ancilla handed to _get_neighbors by create_stabilizer_cycle  *)
(* is a key of qubit_map, so the cycle never raises a lookup error and is  *)
(* built to its end, the measurement.                                      *)
C10_CycleCompletes ==
    /\ Range(ancilla_qubits) \subseteq Keys(qubit_map)
    /\ (call = "create_stabilizer_cycle"
          => /\ error = "none"
             /\ circuit \in DOMAIN circuits
             /\ circuits[circuit].ops # <<>>
             /\ circuits[circuit].ops[Len(circuits[circuit].ops)]
                   = measure(ancilla_qubits, "syndrome"))

(* A cycle was built for ancillas at two different sites. *)
C10_Witness ==
    /\ call = "create_stabilizer_cycle"
    /\ error = "none"
    /\ Cardinality(Range(ancilla_qubits)) >= 2
    /\ circuit \in DOMAIN circuits

====
